---- MODULE Spec2Model ----
(***************************************************************************)
(* A model of the weather-data scripts: src/src/weather_data.py (Moscow    *)
(* time, decorated weather-code table) and src/src/test.py (UTC time,      *)
(* plain table).  Both fetch one forecast through the Open-Meteo client,   *)
(* build a dictionary from the current-conditions block and log a summary. *)
(*                                                                         *)
(* Conventions of the model                                                *)
(*   - a raw slot value is Num(v), v in thousandths (18456 is 18.456), or  *)
(*     NaN;                                                                *)
(*   - round(x, 1) yields F1(t), t in tenths; round(x) and int(x) yield    *)
(*     an integer I(n);                                                    *)
(*   - a timestamp string is a record: fmt "iso" (date, 'T', time, offset  *)
(*     marker), fmt "civil" ("YYYY-MM-DD HH:MM:SS") or fmt "malformed";    *)
(*   - message texts are ASCII renderings of the Russian originals.        *)
(***************************************************************************)
EXTENDS Integers, Sequences, FiniteSets, TLC

VARIABLES
    script,         \* which entry script runs: "weather_data" or "test"
    pc,             \* position of the caller
    args,           \* arguments of the get_weather_data call (latitude/longitude, forecast_days)
    request,        \* params handed to client.weather_api
    transport,      \* what client.weather_api did on the call
    apiCalls,       \* number of client.weather_api invocations
    weather_data,   \* value returned by get_weather_data
    escaped,        \* TRUE when an exception left get_weather_data
    log,            \* records handed to the logger, in order
    renders,        \* line sequences emitted by each log_weather_summary call
    conv_in,        \* argument of a direct convert_utc_to_msk_pytz call
    conv_out        \* its return value

vars == <<script, pc, args, request, transport, apiCalls, weather_data, escaped, log,
          renders, conv_in, conv_out>>

None == [kind |-> "None"]

(***************************************************************************)
(* Numbers                                                                 *)
(***************************************************************************)
Num(v) == [k |-> "num", v |-> v]
NaN == [k |-> "nan", v |-> 0]
F1(t) == [k |-> "f1", v |-> t]
I(n) == [k |-> "int", v |-> n]
Raise(e) == [k |-> "raise", v |-> 0, exc |-> e]

IsRaise(x) == x.k = "raise"

\* Nearest multiple of unit, ties to the even quotient (Python 3 round()).
RoundHalfEven(v, unit) ==
    LET q == v \div unit
        r == v % unit
    IN  IF 2 * r < unit THEN q
        ELSE IF 2 * r > unit THEN q + 1
        ELSE IF q % 2 = 0 THEN q ELSE q + 1

\* In the three conversions an argument whose evaluation raised raises on.
\* round(x, 1): a float with one decimal; NaN stays NaN.
Round1(x) ==
    IF IsRaise(x) THEN x
    ELSE IF x.k = "nan" THEN NaN ELSE F1(RoundHalfEven(x.v, 100))

\* round(x): an int; ValueError on NaN.
Round0(x) ==
    IF IsRaise(x) THEN x
    ELSE IF x.k = "nan" THEN Raise("ValueError") ELSE I(RoundHalfEven(x.v, 1000))

\* a weather code rounded like its neighbours instead of truncated
PyIntRounds(x) == Round0(x)

\* int(x): truncation toward zero; ValueError on NaN.
PyInt(x) ==
    IF IsRaise(x) THEN x
    ELSE IF x.k = "nan" THEN Raise("ValueError")
    ELSE IF x.v >= 0 THEN I(x.v \div 1000) ELSE I(-((-x.v) \div 1000))

(***************************************************************************)
(* Calendar                                                                *)
(***************************************************************************)
MAXYEAR == 9999

IsLeap(y) == (y % 4 = 0 /\ y % 100 # 0) \/ y % 400 = 0

DaysInMonth(y, m) ==
    IF m = 2 THEN (IF IsLeap(y) THEN 29 ELSE 28)
    ELSE IF m \in {4, 6, 9, 11} THEN 30 ELSE 31

\* A datetime without tzinfo: date <<y, m, d>>, time <<h, mi, s>>.
DT(date, time) == [date |-> date, time |-> time]

NextDay(date) ==
    IF date[3] < DaysInMonth(date[1], date[2]) THEN <<date[1], date[2], date[3] + 1>>
    ELSE IF date[2] < 12 THEN <<date[1], date[2] + 1, 1>>
    ELSE <<date[1] + 1, 1, 1>>

PrevDay(date) ==
    IF date[3] > 1 THEN <<date[1], date[2], date[3] - 1>>
    ELSE IF date[2] > 1 THEN <<date[1], date[2] - 1, DaysInMonth(date[1], date[2] - 1)>>
    ELSE <<date[1] - 1, 12, 31>>

\* the clock wraps at midnight and the date stays
AddMinutesSameDay(dt, delta) ==
    LET rest == (dt.time[1] * 60 + dt.time[2] + delta) % 1440
    IN  [k |-> "dt", v |-> 0,
         dt |-> DT(dt.date, <<rest \div 60, rest % 60, dt.time[3]>>)]

\* dt + timedelta(minutes = delta), |delta| < one day; OverflowError past MAXYEAR.
AddMinutes(dt, delta) ==
    LET total == dt.time[1] * 60 + dt.time[2] + delta
        day == total \div 1440
        rest == total % 1440
        date == IF day = 1 THEN NextDay(dt.date)
                ELSE IF day = -1 THEN PrevDay(dt.date) ELSE dt.date
    IN  IF date[1] > MAXYEAR THEN Raise("OverflowError")
        ELSE [k |-> "dt", v |-> 0,
              dt |-> DT(date, <<rest \div 60, rest % 60, dt.time[3]>>)]

DateKey(date) == date[1] * 10000 + date[2] * 100 + date[3]
TimeKey(time) == time[1] * 10000 + time[2] * 100 + time[3]

\* a >= b for datetimes on the same clock
NotBefore(a, b) ==
    \/ DateKey(a.date) > DateKey(b.date)
    \/ DateKey(a.date) = DateKey(b.date) /\ TimeKey(a.time) >= TimeKey(b.time)

(***************************************************************************)
(* Timestamp strings                                                       *)
(***************************************************************************)
NoOffset == [sign |-> "none", min |-> 0]
Zulu == [sign |-> "Z", min |-> 0]
Plus(m) == [sign |-> "+", min |-> m]
Minus(m) == [sign |-> "-", min |-> m]

\* "YYYY-MM-DDTHH:MM:SS" followed by nothing, "Z", "+HH:MM" or "-HH:MM"
IsoStr(date, time, off) == [fmt |-> "iso", date |-> date, time |-> time, off |-> off]
\* "YYYY-MM-DD HH:MM:SS"
CivilStr(date, time) == [fmt |-> "civil", date |-> date, time |-> time, off |-> NoOffset]
\* a text datetime.fromisoformat rejects
MalformedStr == [fmt |-> "malformed", date |-> <<0, 0, 0>>, time |-> <<0, 0, 0>>, off |-> NoOffset]

\* datetime.fromtimestamp(t, timezone.utc).isoformat(): always carries "+00:00"
IsoFormatUtc(dt) == IsoStr(dt.date, dt.time, Plus(0))

\* msk_dt.strftime('%Y-%m-%d %H:%M:%S')
Strftime(dt) == CivilStr(dt.date, dt.time)

\* '+' in s or 'Z' in s: digits, '-', ':' and 'T' hold neither character
HasPlusOrZ(s) == s.off.sign \in {"+", "Z"}

\* datetime.fromisoformat(s): a datetime, aware when the text carries an offset
\* (after .replace('Z', '+00:00') a "Z" reads as +00:00); ValueError otherwise.
FromIsoFormat(s) ==
    IF s.fmt # "iso" THEN Raise("ValueError")
    ELSE [k |-> "dt", v |-> 0, dt |-> DT(s.date, s.time),
          aware |-> s.off.sign # "none",
          utcoffset |-> IF s.off.sign = "-" THEN -s.off.min ELSE s.off.min]

\* Europe/Moscow in the tz database: UTC+4 from 2011-03-27 until
\* 2014-10-26 02:00 local (2014-10-25 22:00 UTC), UTC+3 since.  The model's
\* instants start in 2012, after the 2011 transition.
MskTransition == DT(<<2014, 10, 25>>, <<22, 0, 0>>)

MskUtcOffset(utc) == IF NotBefore(utc, MskTransition) THEN 180 ELSE 240

\* utc_dt.astimezone(msk_tz): to UTC by the datetime's own offset, then
\* tz.fromutc adds the zone's offset at that instant.
AsTimezoneMsk(dt, utcoffset) ==
    LET utc == AddMinutes(dt, -utcoffset)
    IN  IF IsRaise(utc) THEN utc ELSE AddMinutes(utc.dt, MskUtcOffset(utc.dt))

\* The try block of convert_utc_to_msk_pytz: the Moscow datetime or the
\* exception raised on the way.
ConvertTry(s) ==
    LET parsed == FromIsoFormat(s)
    IN  IF IsRaise(parsed) THEN parsed
        ELSE IF HasPlusOrZ(s)
             THEN \* naive_dt.astimezone(utc_tz) if naive_dt.tzinfo is None else naive_dt
                  AsTimezoneMsk(parsed.dt, parsed.utcoffset)
             ELSE \* utc_tz.localize(naive_dt): ValueError when tzinfo is already set
                  IF parsed.aware THEN Raise("ValueError")
                  ELSE AsTimezoneMsk(parsed.dt, 0)

Entry(level, msg, fields) == [level |-> level, msg |-> msg, fields |-> fields]

ConvertErrorMsg == "Oshibka konvertatsii vremeni s pytz"

\* the except branch logs and returns nothing instead of the input
ConvertReturnsNothing(s) ==
    LET r == ConvertTry(s)
    IN  IF IsRaise(r)
        THEN [out |-> [fmt |-> "unset", date |-> <<0, 0, 0>>, time |-> <<0, 0, 0>>,
                       off |-> NoOffset],
              logged |-> <<Entry("ERROR", ConvertErrorMsg, <<r.exc>>)>>]
        ELSE [out |-> Strftime(r.dt), logged |-> <<>>]

\* convert_utc_to_msk_pytz(utc_datetime_str): the returned string and the
\* records logged.
ConvertUtcToMskPytz(s) ==
    LET r == ConvertTry(s)
    IN  IF IsRaise(r)
        THEN [out |-> s, logged |-> <<Entry("ERROR", ConvertErrorMsg, <<r.exc>>)>>]
        ELSE [out |-> Strftime(r.dt), logged |-> <<>>]

\* get_current_msk_time(): now in Europe/Moscow, formatted
GetCurrentMskTime(nowUtc) == Strftime(AddMinutes(nowUtc, MskUtcOffset(nowUtc)).dt)

(***************************************************************************)
(* The request and the response                                            *)
(***************************************************************************)
CurrentVariables ==
    <<"temperature_2m", "relative_humidity_2m", "apparent_temperature",
      "precipitation", "rain", "showers", "snowfall", "weather_code",
      "cloud_cover", "pressure_msl", "surface_pressure", "wind_speed_10m",
      "wind_direction_10m", "wind_gusts_10m">>

HourlyVariables ==
    <<"temperature_2m", "relative_humidity_2m", "precipitation",
      "weather_code", "surface_pressure", "wind_speed_10m">>

DailyVariables ==
    <<"weather_code", "temperature_2m_max", "temperature_2m_min",
      "apparent_temperature_max", "apparent_temperature_min",
      "precipitation_sum", "precipitation_hours", "wind_speed_10m_max">>

\* params of get_weather_data
Params(a) ==
    [latitude |-> a.latitude, longitude |-> a.longitude,
     current |-> CurrentVariables, hourly |-> HourlyVariables,
     daily |-> DailyVariables, timezone |-> "auto",
     forecast_days |-> a.forecast_days, past_days |-> 0]

\* current.Variables(i).Value().  The accessor is the FlatBuffers-generated
\* VariablesWithTime.Variables(j) of the Open-Meteo SDK: it does not compare j
\* with VariablesLength(), and get_weather_data never asks for the length.
\* Past the last slot the read leaves the vector: it either raises or yields
\* whatever the buffer holds there; oob is that outcome, part of what the
\* transport handed back.
SlotValue(current, i, oob) ==
    IF i < Len(current.values) THEN current.values[i + 1] ELSE oob

\* pressure_msl and surface_pressure built from each other's slot
CurrentFieldsSwapped(current, oob) ==
    [temperature          |-> Round1(SlotValue(current, 0, oob)),
     humidity             |-> Round0(SlotValue(current, 1, oob)),
     apparent_temperature |-> Round1(SlotValue(current, 2, oob)),
     precipitation        |-> Round1(SlotValue(current, 3, oob)),
     rain                 |-> Round1(SlotValue(current, 4, oob)),
     showers              |-> Round1(SlotValue(current, 5, oob)),
     snowfall             |-> Round1(SlotValue(current, 6, oob)),
     weather_code         |-> PyInt(SlotValue(current, 7, oob)),
     cloud_cover          |-> Round0(SlotValue(current, 8, oob)),
     pressure_msl         |-> Round0(SlotValue(current, 10, oob)),
     surface_pressure     |-> Round0(SlotValue(current, 9, oob)),
     wind_speed           |-> Round1(SlotValue(current, 11, oob)),
     wind_direction       |-> Round0(SlotValue(current, 12, oob)),
     wind_gusts           |-> Round1(SlotValue(current, 13, oob))]

\* The fourteen numeric entries of the "current" dictionary.
CurrentFields(current, oob) ==
    [temperature          |-> Round1(SlotValue(current, 0, oob)),
     humidity             |-> Round0(SlotValue(current, 1, oob)),
     apparent_temperature |-> Round1(SlotValue(current, 2, oob)),
     precipitation        |-> Round1(SlotValue(current, 3, oob)),
     rain                 |-> Round1(SlotValue(current, 4, oob)),
     showers              |-> Round1(SlotValue(current, 5, oob)),
     snowfall             |-> Round1(SlotValue(current, 6, oob)),
     weather_code         |-> PyInt(SlotValue(current, 7, oob)),
     cloud_cover          |-> Round0(SlotValue(current, 8, oob)),
     pressure_msl         |-> Round0(SlotValue(current, 9, oob)),
     surface_pressure     |-> Round0(SlotValue(current, 10, oob)),
     wind_speed           |-> Round1(SlotValue(current, 11, oob)),
     wind_direction       |-> Round0(SlotValue(current, 12, oob)),
     wind_gusts           |-> Round1(SlotValue(current, 13, oob))]

\* The order in which the dictionary display evaluates them.
FieldOrder ==
    <<"temperature", "humidity", "apparent_temperature", "precipitation", "rain",
      "showers", "snowfall", "weather_code", "cloud_cover", "pressure_msl",
      "surface_pressure", "wind_speed", "wind_direction", "wind_gusts">>

Units ==
    [temperature |-> "C", precipitation |-> "mm", pressure |-> "hPa",
     wind_speed |-> "km/h"]

Return(value, logged) == [k |-> "return", value |-> value, logged |-> logged]
Raised(exc, logged) == [k |-> "raise", exc |-> exc, logged |-> logged]

RequestMsg == "Zapros pogody dlya koordinat"
EmptyMsg == "Poluchen pustoy otvet ot API"
SuccessMsg == "Dannye pogody uspeshno polucheny."
FailureMsg == "Oshibka pri poluchenii dannykh pogody"

\* The time entries of "current" and the timestamps of the dictionary.
\* weather_data.py converts the observation time to Moscow time and stamps
\* the record with the Moscow wall clock; test.py keeps UTC throughout.
TimeEntries(scr, current) ==
    LET utc_time_str == IsoFormatUtc(current.time)
    IN  IF scr = "weather_data"
        THEN [time_utc |-> utc_time_str,
              time_msk |-> ConvertUtcToMskPytz(utc_time_str).out]
        ELSE [time |-> utc_time_str]

Timestamps(scr, nowUtc) ==
    IF scr = "weather_data"
    THEN [timestamp |-> GetCurrentMskTime(nowUtc), timestamp_utc |-> IsoFormatUtc(nowUtc)]
    ELSE [timestamp |-> IsoFormatUtc(nowUtc)]

\* What the converter logs while the dictionary is being prepared.
TimeLogged(scr, current) ==
    IF scr = "weather_data"
    THEN ConvertUtcToMskPytz(IsoFormatUtc(current.time)).logged
    ELSE <<>>

\* From response = responses[0] to return weather_data.
BuildWeatherData(scr, a, response, oob, nowUtc) ==
    IF ~response.current.present
    THEN \* response.Current() is None: current.Time() raises
         Raised("AttributeError", <<>>)
    ELSE LET current == response.current
             fields == CurrentFields(current, oob)
             failed == {i \in DOMAIN FieldOrder : IsRaise(fields[FieldOrder[i]])}
             first == CHOOSE i \in failed : \A j \in failed : i <= j
             logged == TimeLogged(scr, current)
         IN  IF failed # {}
             THEN \* the display stops at the first entry that raises
                  Raised(fields[FieldOrder[first]].exc, logged)
             ELSE Return(
                    [kind |-> "dict",
                     coordinates |-> [latitude |-> a.latitude,
                                      longitude |-> a.longitude,
                                      elevation |-> response.elevation],
                     current |-> TimeEntries(scr, current) @@ fields,
                     forecast_days |-> a.forecast_days,
                     units |-> Units] @@ Timestamps(scr, nowUtc),
                    logged \o <<Entry("INFO", SuccessMsg, <<>>)>>)

\* The try block of get_weather_data.
GetWeatherDataTry(scr, a, tr, nowUtc) ==
    IF tr.k = "raise" THEN Raised(tr.exc, <<>>)
    ELSE IF tr.responses = <<>>
         THEN Return(None, <<Entry("ERROR", EmptyMsg, <<>>)>>)
         ELSE BuildWeatherData(scr, a, tr.responses[1], tr.oob, nowUtc)

\* except Exception as e: every exception of the try block is logged and
\* turned into None.
ExceptException(r) ==
    IF r.k = "raise"
    THEN [value |-> None, escaped |-> FALSE,
          logged |-> r.logged \o <<Entry("ERROR", FailureMsg, <<r.exc>>)>>]
    ELSE [value |-> r.value, escaped |-> FALSE, logged |-> r.logged]

\* get_weather_data(client, latitude, longitude, forecast_days): the value
\* returned, the records logged and whether an exception left the call.
GetWeatherData(scr, a, tr, nowUtc) ==
    LET r == ExceptException(GetWeatherDataTry(scr, a, tr, nowUtc))
    IN  [value |-> r.value, escaped |-> r.escaped,
         logged |-> <<Entry("INFO", RequestMsg, <<a.latitude, a.longitude>>)>> \o r.logged]

(***************************************************************************)
(* The summary                                                             *)
(***************************************************************************)
\* A text: a fixed part (pictogram, words) and the digits of an embedded number.
Text(pictogram, words) == [pictogram |-> pictogram, words |-> words, digits |-> <<>>]

\* weather_codes of weather_data.py
WeatherCodesDecorated ==
    (0 :> Text("sun", "Yasno")) @@
    (1 :> Text("sun-small-cloud", "Preimushchestvenno yasno")) @@
    (2 :> Text("sun-behind-cloud", "Peremennaya oblachnost")) @@
    (3 :> Text("cloud", "Pasmurno")) @@
    (45 :> Text("fog", "Tuman")) @@
    (48 :> Text("fog", "Izmoroz")) @@
    (51 :> Text("rain", "Moros slabaya")) @@
    (53 :> Text("rain", "Moros umerennaya")) @@
    (55 :> Text("rain", "Moros silnaya")) @@
    (56 :> Text("rain-snowflake", "Ledyanaya moros slabaya")) @@
    (57 :> Text("rain-snowflake", "Ledyanaya moros silnaya")) @@
    (61 :> Text("rain", "Dozhd slabyy")) @@
    (63 :> Text("rain", "Dozhd umerennyy")) @@
    (65 :> Text("rain", "Dozhd silnyy")) @@
    (66 :> Text("rain-ice", "Ledyanoy dozhd slabyy")) @@
    (67 :> Text("rain-ice", "Ledyanoy dozhd silnyy")) @@
    (71 :> Text("snow", "Sneg slabyy")) @@
    (73 :> Text("snow", "Sneg umerennyy")) @@
    (75 :> Text("snow", "Sneg silnyy")) @@
    (77 :> Text("snowflake", "Snezhnye zerna")) @@
    (80 :> Text("sun-rain", "Liven slabyy")) @@
    (81 :> Text("sun-rain", "Liven umerennyy")) @@
    (82 :> Text("thunder-rain", "Liven silnyy")) @@
    (85 :> Text("snow", "Snegopad slabyy")) @@
    (86 :> Text("snow", "Snegopad silnyy")) @@
    (95 :> Text("thunder-rain", "Groza")) @@
    (96 :> Text("thunder-rain", "Groza s gradom slabaya")) @@
    (99 :> Text("thunder-rain", "Groza s gradom silnaya"))

\* weather_codes of test.py
WeatherCodesPlain ==
    (0 :> Text("", "Yasno")) @@
    (1 :> Text("", "Preimushchestvenno yasno")) @@
    (2 :> Text("", "Peremennaya oblachnost")) @@
    (3 :> Text("", "Pasmurno")) @@
    (45 :> Text("", "Tuman")) @@
    (48 :> Text("", "Izmoroz")) @@
    (51 :> Text("", "Moros slabaya")) @@
    (53 :> Text("", "Moros umerennaya")) @@
    (55 :> Text("", "Moros silnaya")) @@
    (61 :> Text("", "Dozhd slabyy")) @@
    (63 :> Text("", "Dozhd umerennyy")) @@
    (65 :> Text("", "Dozhd silnyy")) @@
    (71 :> Text("", "Sneg slabyy")) @@
    (73 :> Text("", "Sneg umerennyy")) @@
    (75 :> Text("", "Sneg silnyy")) @@
    (80 :> Text("", "Liven slabyy")) @@
    (81 :> Text("", "Liven umerennyy")) @@
    (82 :> Text("", "Liven silnyy")) @@
    (95 :> Text("", "Groza")) @@
    (96 :> Text("", "Groza s gradom slabaya")) @@
    (99 :> Text("", "Groza s gradom silnaya"))

WeatherCodes(scr) ==
    IF scr = "weather_data" THEN WeatherCodesDecorated ELSE WeatherCodesPlain

\* f"Kod pogody: {code}"
FallbackText(code) == [pictogram |-> "", words |-> "Kod pogody: ", digits |-> <<code>>]

\* a lookup by range: an unknown code takes the entry of the key below it
DictGetBelow(table, code) ==
    LET below == {k \in DOMAIN table : k <= code}
    IN  IF below = {} THEN FallbackText(code)
        ELSE table[CHOOSE k \in below : \A j \in below : j <= k]

\* weather_codes.get(code, f"Kod pogody: {code}")
DictGet(table, code) ==
    IF code \in DOMAIN table THEN table[code] ELSE FallbackText(code)

WeatherDescription(scr, code) == DictGet(WeatherCodes(scr), code)

\* The lines log_weather_summary hands to logger.info, in order.
SummaryLines(scr, wd) ==
    LET current == wd.current
        description == WeatherDescription(scr, current.weather_code.v)
    IN  IF scr = "weather_data"
        THEN <<Entry("INFO", "SVODKA POGODY", <<>>),
               Entry("INFO", "Vremya nablyudeniya (MSK)", <<current.time_msk>>),
               Entry("INFO", "Vremya zaprosa (MSK)", <<wd.timestamp>>),
               Entry("INFO", "Temperatura", <<current.temperature, current.apparent_temperature>>),
               Entry("INFO", "Vlazhnost", <<current.humidity>>),
               Entry("INFO", "Pogoda", <<description>>),
               Entry("INFO", "Veter", <<current.wind_speed, current.wind_gusts>>),
               Entry("INFO", "Davlenie", <<current.surface_pressure>>),
               Entry("INFO", "Osadki", <<current.precipitation>>)>>
        ELSE <<Entry("INFO", "SVODKA POGODY", <<>>),
               \* current['time'][11:19]: the HH:MM:SS of the ISO text
               Entry("INFO", "Vremya", <<current.time.time>>),
               Entry("INFO", "Temperatura", <<current.temperature, current.apparent_temperature>>),
               Entry("INFO", "Vlazhnost", <<current.humidity>>),
               Entry("INFO", "Pogoda", <<description>>),
               Entry("INFO", "Veter", <<current.wind_speed, current.wind_gusts>>),
               Entry("INFO", "Davlenie", <<current.surface_pressure>>),
               Entry("INFO", "Osadki", <<current.precipitation>>)>>

\* the humidity line ahead of the temperature line
LogWeatherSummaryReordered(scr, wd) ==
    IF wd.kind = "None" THEN <<>>
    ELSE LET lines == SummaryLines(scr, wd)
             t == CHOOSE i \in DOMAIN lines : lines[i].msg = "Temperatura"
         IN  [i \in DOMAIN lines |->
                 IF i = t THEN lines[t + 1] ELSE IF i = t + 1 THEN lines[t] ELSE lines[i]]

\* log_weather_summary(weather_data): nothing for a falsy argument.  The
\* function only reads the dictionary.
LogWeatherSummary(scr, wd) ==
    IF wd.kind = "None" THEN <<>> ELSE SummaryLines(scr, wd)

(***************************************************************************)
(* Inputs of the model                                                     *)
(***************************************************************************)
Scripts == {"weather_data", "test"}

\* main(): Belgorod, 50.36 N 36.36 E (hundredths of a degree), three days
MainArgs == [kind |-> "args", latitude |-> 5036, longitude |-> 3636, forecast_days |-> 3]

\* forecast_days a caller of get_weather_data may pass (default 7)
ForecastDaysInputs == {0, 1, 7, 16, 17}

CallArgs ==
    {[kind |-> "args", latitude |-> 5036, longitude |-> 3636, forecast_days |-> fd] :
        fd \in ForecastDaysInputs}

\* the wall clock (UTC) when the record is assembled
Now == DT(<<2024, 1, 15>>, <<12, 0, 5>>)

\* observation instants current.Time() may hold
Instants ==
    {DT(<<2024, 1, 15>>, <<12, 0, 0>>),
     DT(<<2024, 2, 29>>, <<21, 0, 0>>),
     DT(<<2024, 12, 31>>, <<22, 30, 0>>),
     DT(<<2012, 6, 1>>, <<12, 0, 0>>),
     DT(<<9999, 12, 31>>, <<20, 59, 59>>),
     DT(<<9999, 12, 31>>, <<21, 0, 0>>)}

\* a well-formed current-conditions block, one value per declared variable
BaseValues ==
    <<Num(18456), Num(63400), Num(17230), Num(1250), Num(750), Num(340), Num(0),
      Num(61900), Num(87500), Num(1013250), Num(998500), Num(12340),
      Num(225600), Num(27890)>>

\* Values a slot may hold instead.  A decimal tie at one decimal appears only
\* where the binary float holds it exactly (x.25, x.75).
SampleValues ==
    {Num(-61900), Num(-2500), Num(-250), Num(0), Num(40), Num(2500), Num(3500),
     Num(18456), Num(63400), NaN}

KnownCodes ==
    {0, 1, 2, 3, 45, 48, 51, 53, 55, 56, 57, 61, 63, 65, 66, 67, 71, 73, 75, 77,
     80, 81, 82, 85, 86, 95, 96, 99}

OtherCodes == {-1, 4, 44, 60, 62, 64, 98, 100, 12345}

CodeValues ==
    {Num(c * 1000) : c \in KnownCodes \cup OtherCodes}
        \cup {Num(61900), Num(56500), Num(-500), NaN}

Overrides ==
    {<<7, v>> : v \in CodeValues}
        \cup {<<i, v>> : i \in (0..13) \ {7}, v \in SampleValues}

Response(time, values) ==
    [elevation |-> Num(130000),
     current |-> [present |-> TRUE, time |-> time, values |-> values]]

\* instants at which single slots are varied: one that converts and one whose
\* Moscow time lies past the year 9999
OverrideInstants ==
    {DT(<<2024, 1, 15>>, <<12, 0, 0>>), DT(<<9999, 12, 31>>, <<21, 0, 0>>)}

FullResponses ==
    {Response(t, BaseValues) : t \in Instants}
        \cup {Response(t, [BaseValues EXCEPT ![o[1] + 1] = o[2]]) :
                  t \in OverrideInstants, o \in Overrides}

\* blocks cut short after n slots, and one slot too long
ShortResponses ==
    {Response(t, SubSeq(BaseValues, 1, n)) : t \in Instants, n \in 0..13}

LongResponses ==
    {Response(t, BaseValues \o <<Num(1000)>>) : t \in Instants}

\* response.Current() is None
NoCurrent ==
    [elevation |-> Num(130000),
     current |-> [present |-> FALSE, time |-> Now, values |-> <<>>]]

Responses == FullResponses \cup ShortResponses \cup LongResponses \cup {NoCurrent}

\* what a read past the last slot may give
GarbageValues == {Num(0), Num(123456)}

OobOutcomes(r) ==
    IF r.current.present /\ Len(r.current.values) < Len(CurrentVariables)
    THEN {Raise("struct.error")} \cup GarbageValues
    ELSE {Raise("struct.error")}

\* what client.weather_api may do: raise, hand back an empty list, or hand
\* back one response
TransportOutcomes ==
    {[k |-> "raise", exc |-> "TransportError", responses |-> <<>>, oob |-> Raise("struct.error")],
     [k |-> "ok", exc |-> "", responses |-> <<>>, oob |-> Raise("struct.error")]}
        \cup UNION {{[k |-> "ok", exc |-> "", responses |-> <<r>>, oob |-> o] :
                        o \in OobOutcomes(r)} : r \in Responses}

IsoDates ==
    {<<2012, 6, 1>>, <<2014, 10, 25>>, <<2014, 10, 26>>, <<2023, 2, 28>>,
     <<2024, 1, 15>>, <<2024, 2, 28>>, <<2024, 2, 29>>, <<2024, 4, 30>>,
     <<2024, 12, 31>>, <<9999, 12, 31>>}

IsoTimes ==
    {<<0, 0, 0>>, <<7, 0, 0>>, <<12, 0, 0>>, <<20, 59, 59>>, <<21, 0, 0>>,
     <<22, 0, 0>>, <<23, 59, 59>>}

IsoOffsets == {NoOffset, Zulu, Plus(0), Plus(180), Plus(330), Minus(0), Minus(300)}

IsoInputs ==
    {IsoStr(d, t, o) : d \in IsoDates, t \in IsoTimes, o \in IsoOffsets}
        \cup {MalformedStr}

\* how often the harness renders one record
MaxRenders == 2

(***************************************************************************)
(* The state machine                                                       *)
(***************************************************************************)
NoArgs == [kind |-> "None"]
NoTransport == [k |-> "none", exc |-> "", responses |-> <<>>, oob |-> Raise("struct.error")]
NoStr == [fmt |-> "unset", date |-> <<0, 0, 0>>, time |-> <<0, 0, 0>>, off |-> NoOffset]

Init ==
    /\ script \in Scripts
    /\ pc = "start"
    /\ args = NoArgs
    /\ request = NoArgs
    /\ transport = NoTransport
    /\ apiCalls = 0
    /\ weather_data = None
    /\ escaped = FALSE
    /\ log = <<>>
    /\ renders = <<>>
    /\ conv_in = NoStr
    /\ conv_out = NoStr

\* One call of get_weather_data with arguments a: the request is logged, the
\* transport is called once and answers tr, the record is built or the
\* failure logged.
CallGetWeatherData(a, tr) ==
    LET r == GetWeatherData(script, a, tr, Now)
    IN  /\ args' = a
        /\ request' = Params(a)
        /\ transport' = tr
        /\ apiCalls' = apiCalls + 1
        /\ weather_data' = r.value
        /\ escaped' = r.escaped
        /\ log' = log \o r.logged

\* One call of log_weather_summary(weather_data).
CallLogWeatherSummary(extra) ==
    LET lines == LogWeatherSummary(script, weather_data)
    IN  /\ renders' = Append(renders, lines)
        /\ log' = log \o lines \o extra
        /\ weather_data' = weather_data

\* __main__ up to the client: the start line (weather_data.py only) and
\* setup_openmeteo_client, which may raise.
Main_SetupClient ==
    /\ pc = "start"
    /\ \E ok \in BOOLEAN :
        LET started == IF script = "weather_data"
                       THEN <<Entry("INFO", "Skript zapushchen", <<GetCurrentMskTime(Now)>>)>>
                       ELSE <<>>
        IN  IF ok
            THEN /\ log' = log \o started
                            \o <<Entry("DEBUG", "Klient Open-Meteo uspeshno nastroen", <<>>)>>
                 /\ pc' = "client"
            ELSE /\ log' = log \o started
                            \o <<Entry("ERROR", "Oshibka nastroyki klienta Open-Meteo", <<"Exception">>)>>
                 /\ pc' = "returned"
    /\ UNCHANGED <<script, args, request, transport, apiCalls, weather_data, escaped,
                   renders, conv_in, conv_out>>

\* main: weather_data = get_weather_data(client, 50.36, 36.36, forecast_days=3)
Main_GetWeatherData ==
    /\ pc = "client"
    /\ \E tr \in TransportOutcomes : CallGetWeatherData(MainArgs, tr)
    /\ pc' = "fetched"
    /\ UNCHANGED <<script, renders, conv_in, conv_out>>

\* main without the else branch: nothing is logged for None
Main_ReportSilent ==
    /\ pc = "fetched"
    /\ IF weather_data.kind # "None"
       THEN CallLogWeatherSummary(
                IF script = "weather_data"
                THEN <<Entry("DEBUG", "Polnye dannye", <<weather_data>>)>>
                ELSE <<>>)
       ELSE UNCHANGED <<log, renders, weather_data>>
    /\ pc' = "returned"
    /\ UNCHANGED <<script, args, request, transport, apiCalls, escaped, conv_in, conv_out>>

\* main: the summary for a record, a warning for None
Main_Report ==
    /\ pc = "fetched"
    /\ IF weather_data.kind # "None"
       THEN CallLogWeatherSummary(
                IF script = "weather_data"
                THEN <<Entry("DEBUG", "Polnye dannye", <<weather_data>>)>>
                ELSE <<>>)
       ELSE /\ log' = Append(log, Entry("WARNING", "Ne udalos poluchit dannye pogody", <<>>))
            /\ UNCHANGED <<renders, weather_data>>
    /\ pc' = "returned"
    /\ UNCHANGED <<script, args, request, transport, apiCalls, escaped, conv_in, conv_out>>

\* __main__ after main(): the closing line
Main_Exit ==
    /\ pc = "returned"
    /\ log' = Append(log, Entry("INFO", "Skript vypolnen", <<>>))
    /\ pc' = "exit"
    /\ UNCHANGED <<script, args, request, transport, apiCalls, weather_data, escaped,
                   renders, conv_in, conv_out>>

\* get_weather_data called by another caller, with any forecast_days
Call_GetWeatherData ==
    /\ pc = "start"
    /\ \E a \in CallArgs : \E tr \in TransportOutcomes : CallGetWeatherData(a, tr)
    /\ pc' = "called"
    /\ UNCHANGED <<script, renders, conv_in, conv_out>>

\* log_weather_summary called on the returned value, repeatedly
Call_LogWeatherSummary ==
    /\ pc = "called"
    /\ Len(renders) < MaxRenders
    /\ CallLogWeatherSummary(<<>>)
    /\ UNCHANGED <<script, pc, args, request, transport, apiCalls, escaped, conv_in, conv_out>>

\* convert_utc_to_msk_pytz called on a timestamp string (weather_data.py)
Call_Convert ==
    /\ pc = "start"
    /\ script = "weather_data"
    /\ \E s \in IsoInputs :
        LET r == ConvertUtcToMskPytz(s)
        IN  /\ conv_in' = s
            /\ conv_out' = r.out
            /\ log' = log \o r.logged
    /\ pc' = "converted"
    /\ UNCHANGED <<script, args, request, transport, apiCalls, weather_data, escaped, renders>>

Next ==
    \/ Main_SetupClient
    \/ Main_GetWeatherData
    \/ Main_Report
    \/ Main_Exit
    \/ Call_GetWeatherData
    \/ Call_LogWeatherSummary
    \/ Call_Convert

Spec == Init /\ [][Next]_vars

(***************************************************************************)
(* Properties                                                              *)
(***************************************************************************)
\* get_weather_data has been called and has returned
AfterCall == args.kind = "args"

\* the call got one response
GotResponse == AfterCall /\ transport.k = "ok" /\ transport.responses # <<>>

TheCurrent == transport.responses[1].current

ErrorCount == Cardinality({i \in DOMAIN log : log[i].level = "ERROR"})

\* the invocation failed: the transport raised, the list was empty, or
\* reading the response raised
FailedCall ==
    /\ AfterCall
    /\ \/ transport.k = "raise"
       \/ transport.responses = <<>>
       \/ BuildWeatherData(script, args, transport.responses[1], transport.oob, Now).k = "raise"

\* C1 (as stated): every failed invocation of get_weather_data returns None,
\* logs exactly one ERROR line and lets no exception escape.
C1_OneErrorPerFailure ==
    FailedCall => /\ weather_data.kind = "None"
                  /\ ~escaped
                  /\ ErrorCount = 1

\* C2 (as stated): for forecast_days outside 1..16 the call fails before the
\* transport is invoked.
C2_RejectedBeforeNetwork ==
    (AfterCall /\ args.forecast_days \notin 1..16)
        => /\ apiCalls = 0
           /\ weather_data.kind = "None"

\* the current-conditions block holds fewer slots than variables were declared
ShortBlock ==
    GotResponse /\ TheCurrent.present /\ Len(TheCurrent.values) < Len(CurrentVariables)

\* C3 (as stated): a block with fewer than 14 slots produces no record,
\* whichever slot is the first missing one.
C3_ShortBlockNoRecord ==
    ShortBlock => weather_data.kind = "None"

\* the block holds a number in each of the fourteen declared slots
WellFormedBlock ==
    /\ GotResponse
    /\ TheCurrent.present
    /\ Len(TheCurrent.values) >= Len(CurrentVariables)
    /\ \A i \in DOMAIN CurrentVariables : TheCurrent.values[i].k = "num"

Abs(n) == IF n < 0 THEN -n ELSE n

\* f is the one-decimal float nearest to the raw value v (thousandths)
NearestTenth(f, v) == f.k = "f1" /\ 2 * Abs(f.v * 100 - v) <= 100

\* f is the integer nearest to the raw value v
NearestInteger(f, v) == f.k = "int" /\ 2 * Abs(f.v * 1000 - v) <= 1000

\* f is v with its fraction dropped, toward zero
Truncated(f, v) ==
    /\ f.k = "int"
    /\ Abs(f.v) * 1000 <= Abs(v)
    /\ Abs(v) - Abs(f.v) * 1000 < 1000
    /\ (v >= 0 => f.v >= 0) /\ (v <= 0 => f.v <= 0)

OneDecimalSlots ==
    [temperature |-> 1, apparent_temperature |-> 3, precipitation |-> 4, rain |-> 5,
     showers |-> 6, snowfall |-> 7, wind_speed |-> 12, wind_gusts |-> 14]

IntegerSlots ==
    [humidity |-> 2, cloud_cover |-> 9, pressure_msl |-> 10, surface_pressure |-> 11,
     wind_direction |-> 13]

\* C4: with 14 well-formed values a record is built whose temperature,
\* apparent temperature, precipitation, rain, showers, snowfall, wind speed and
\* gusts are the nearest one-decimal values, whose humidity, cloud cover,
\* pressures and wind direction are the nearest integers, and whose weather
\* code is the value truncated, not rounded.
C4_FieldPrecision ==
    WellFormedBlock =>
        /\ weather_data.kind = "dict"
        /\ \A n \in DOMAIN OneDecimalSlots :
              NearestTenth(weather_data.current[n], TheCurrent.values[OneDecimalSlots[n]].v)
        /\ \A n \in DOMAIN IntegerSlots :
              NearestInteger(weather_data.current[n], TheCurrent.values[IntegerSlots[n]].v)
        /\ Truncated(weather_data.current.weather_code, TheCurrent.values[8].v)

\* 18.456 -> 18.5, 63.4 -> 63, 61.9 -> 61 in one record
C4_Witness ==
    /\ WellFormedBlock
    /\ TheCurrent.values[1] = Num(18456)
    /\ TheCurrent.values[2] = Num(63400)
    /\ TheCurrent.values[8] = Num(61900)
    /\ weather_data.kind = "dict"
    /\ weather_data.current.temperature = F1(185)
    /\ weather_data.current.humidity = I(63)
    /\ weather_data.current.weather_code = I(61)

\* the summaries that logged something
Summaries == {i \in DOMAIN renders : Len(renders[i]) > 0}

\* the text of the weather line of a summary
DescriptionOf(lines) ==
    LET i == CHOOSE j \in DOMAIN lines : lines[j].msg = "Pogoda"
    IN  lines[i].fields[1]

TheCode == weather_data.current.weather_code.v

\* C5 (as stated): in both scripts every code of the known set is described
\* by its own table entry, never by the fallback text.
C5_KnownCodeOwnEntry ==
    \A i \in Summaries :
        TheCode \in KnownCodes =>
            /\ TheCode \in DOMAIN WeatherCodes(script)
            /\ DescriptionOf(renders[i]) = WeatherCodes(script)[TheCode]

\* C6: a code that is no key of the script's table is described by the
\* fallback text holding that code's digits, and a table entry describes no
\* code but its own key.
C6_UnknownCodeFallback ==
    \A i \in Summaries :
        LET d == DescriptionOf(renders[i])
            table == WeatherCodes(script)
        IN  /\ TheCode \notin DOMAIN table =>
                d.words = "Kod pogody: " /\ d.digits = <<TheCode>>
            /\ \A k \in DOMAIN table : d = table[k] => k = TheCode

\* weather_data.py shows the fallback for 62, which lies between the keys 61 and 63
C6_Witness ==
    /\ \E i \in Summaries : TheCode = 62 /\ DescriptionOf(renders[i]).digits = <<62>>
    /\ script = "weather_data"

\* a text that denotes a UTC instant: no offset, "Z" or "+00:00"
IsUtcText(s) == s.fmt = "iso" /\ s.off \in {NoOffset, Zulu, Plus(0)}

\* the civil string three hours after the date and time written in s
ThreeHoursLater(s) ==
    LET h == s.time[1] + 3
    IN  CivilStr(IF h >= 24 THEN NextDay(s.date) ELSE s.date,
                 <<h % 24, s.time[2], s.time[3]>>)

\* C7 (as stated): every UTC instant converts to the civil time exactly
\* three hours later.
C7_AlwaysThreeHours ==
    (pc = "converted" /\ IsUtcText(conv_in)) => conv_out = ThreeHoursLater(conv_in)

\* the instant lies in the time since Moscow went back to UTC+3, and three
\* hours later is still a date the datetime type holds
SinceUtcPlus3(s) ==
    /\ NotBefore(DT(s.date, s.time), MskTransition)
    /\ ThreeHoursLater(s).date[1] <= MAXYEAR

\* C7 (amended): a UTC instant from 2014-10-25 22:00:00 UTC on, whose Moscow
\* time does not pass the year 9999, converts to the civil time exactly three
\* hours later, "YYYY-MM-DD HH:MM:SS" without offset, also across midnight
\* into the next day, month or year; the record's time_msk obeys the same.
C7_ThreeHoursSince2014 ==
    /\ (pc = "converted" /\ IsUtcText(conv_in) /\ SinceUtcPlus3(conv_in))
          => conv_out = ThreeHoursLater(conv_in)
    /\ (AfterCall /\ script = "weather_data" /\ weather_data.kind = "dict"
            /\ SinceUtcPlus3(weather_data.current.time_utc))
          => weather_data.current.time_msk = ThreeHoursLater(weather_data.current.time_utc)

\* 22:00 UTC on New Year's Eve is 01:00 on New Year's Day in Moscow
C7_Witness ==
    /\ pc = "converted"
    /\ conv_in = IsoStr(<<2024, 12, 31>>, <<22, 0, 0>>, Zulu)
    /\ conv_out = CivilStr(<<2025, 1, 1>>, <<1, 0, 0>>)

\* the Moscow civil string of the instant s denotes when its offset marker is
\* honoured: none or "Z" is UTC, +HH:MM and -HH:MM are that far from UTC
MoscowCivilOf(s) ==
    LET off == IF s.off.sign = "-" THEN -s.off.min ELSE s.off.min
        utc == AddMinutes(DT(s.date, s.time), -off).dt
    IN  Strftime(AddMinutes(utc, MskUtcOffset(utc)).dt)

\* C8 (as stated): a text is parsed at the offset it carries, so texts that
\* denote the same instant convert to the same civil string.
C8_OffsetHonoured ==
    (pc = "converted" /\ conv_in.fmt = "iso" /\ conv_in.date[1] < MAXYEAR)
        => conv_out = MoscowCivilOf(conv_in)

\* the converter logged a failure
ConversionFailed == \E i \in DOMAIN log : log[i].msg = ConvertErrorMsg

\* what get_weather_data returns for the same call when the observation time
\* is one that converts
HadItConverted ==
    LET r == transport.responses[1]
        other == [r EXCEPT !.current.time = DT(<<2024, 1, 15>>, <<12, 0, 0>>)]
    IN  GetWeatherData(script, args, [transport EXCEPT !.responses = <<other>>], Now).value

\* C9: when the conversion fails the converter returns its input unchanged;
\* get_weather_data returns a record exactly when it would have with a time
\* that converts (always for a well-formed block), and the 14 values,
\* coordinates, elevation, units and forecast_days of that record are the same.
C9_ConversionFailureDegrades ==
    /\ (pc = "converted" /\ ConversionFailed) => conv_out = conv_in
    /\ (AfterCall /\ ConversionFailed) =>
          /\ weather_data.kind = HadItConverted.kind
          /\ WellFormedBlock => weather_data.kind = "dict"
          /\ weather_data.kind = "dict" =>
                /\ weather_data.current.time_msk = weather_data.current.time_utc
                /\ \A i \in DOMAIN FieldOrder :
                      weather_data.current[FieldOrder[i]] = HadItConverted.current[FieldOrder[i]]
                /\ weather_data.coordinates = HadItConverted.coordinates
                /\ weather_data.units = HadItConverted.units
                /\ weather_data.forecast_days = HadItConverted.forecast_days

\* an observation in the last three hours of the year 9999 and a full record
C9_Witness ==
    /\ AfterCall
    /\ ConversionFailed
    /\ weather_data.kind = "dict"
    /\ weather_data.current.time_msk.fmt = "iso"
    /\ weather_data.current.temperature = F1(185)

\* the labels the summary is said to carry, in order
ListedLabels(scr) ==
    <<IF scr = "weather_data" THEN "Vremya nablyudeniya (MSK)" ELSE "Vremya",
      "Temperatura", "Vlazhnost", "Pogoda", "Veter", "Davlenie", "Osadki">>

LabelsOf(lines, scr) ==
    LET listed == {ListedLabels(scr)[i] : i \in DOMAIN ListedLabels(scr)}
        Listed(e) == e.msg \in listed
        kept == SelectSeq(lines, Listed)
    IN  [i \in DOMAIN kept |-> kept[i].msg]

FieldOfVariable ==
    [temperature_2m |-> "temperature", relative_humidity_2m |-> "humidity",
     apparent_temperature |-> "apparent_temperature", precipitation |-> "precipitation",
     rain |-> "rain", showers |-> "showers", snowfall |-> "snowfall",
     weather_code |-> "weather_code", cloud_cover |-> "cloud_cover",
     pressure_msl |-> "pressure_msl", surface_pressure |-> "surface_pressure",
     wind_speed_10m |-> "wind_speed", wind_direction_10m |-> "wind_direction",
     wind_gusts_10m |-> "wind_gusts"]

\* the entries of "current" that are not times
NumericFields(current) == DOMAIN current \ {"time", "time_utc", "time_msk"}

\* f is the raw value v at the field's precision: the nearest tenth, or an
\* integer less than one away
DerivedFrom(f, v) ==
    IF f.k = "f1" THEN NearestTenth(f, v)
    ELSE f.k = "int" /\ Abs(f.v * 1000 - v) < 1000

\* C11: the request declares exactly 14 current-conditions variables, no two
\* of them for the same record field; and in every record built from a
\* well-formed block the field of the i-th declared variable holds the value
\* of slot i, for every i in 0..13, these 14 fields being all the numeric
\* entries of the record, so that no slot is read twice and none is skipped.
C11_PositionalContract ==
    AfterCall =>
        /\ Len(request.current) = 14
        /\ \A i \in DOMAIN request.current :
              request.current[i] \in DOMAIN FieldOfVariable
        /\ \A i, j \in DOMAIN request.current :
              i # j => FieldOfVariable[request.current[i]] # FieldOfVariable[request.current[j]]
        /\ WellFormedBlock =>
              /\ weather_data.kind = "dict"
              /\ NumericFields(weather_data.current)
                    = {FieldOfVariable[request.current[i]] : i \in DOMAIN request.current}
              /\ \A i \in 0..13 :
                    DerivedFrom(weather_data.current[FieldOfVariable[request.current[i + 1]]],
                                TheCurrent.values[i + 1].v)

\* slot 0 in temperature, slot 7 in weather_code, slot 9 in pressure_msl,
\* slot 10 in surface_pressure and slot 13 in wind_gusts of one record
C11_Witness ==
    /\ WellFormedBlock
    /\ request.current[11] = "surface_pressure"
    /\ TheCurrent.values[1] = Num(18456)
    /\ TheCurrent.values[8] = Num(61900)
    /\ TheCurrent.values[10] = Num(1013250)
    /\ TheCurrent.values[11] = Num(998500)
    /\ TheCurrent.values[14] = Num(27890)
    /\ weather_data.kind = "dict"
    /\ weather_data.current.temperature = F1(185)
    /\ weather_data.current.weather_code = I(61)
    /\ weather_data.current.pressure_msl = I(1013)
    /\ weather_data.current.surface_pressure = I(998)
    /\ weather_data.current.wind_gusts = F1(279)

\* main is running or has returned (pc values no other caller reaches)
InMain == pc \in {"client", "fetched", "returned", "exit"}

MainReturned == pc \in {"returned", "exit"}

\* where in the log a message stands
LogIdx(msg) == {i \in DOMAIN log : log[i].msg = msg}

\* the messages of the summary lines of either script
SummaryMsgs ==
    {"SVODKA POGODY", "Vremya nablyudeniya (MSK)", "Vremya zaprosa (MSK)", "Vremya",
     "Temperatura", "Vlazhnost", "Pogoda", "Veter", "Davlenie", "Osadki"}

SummaryIdx == {i \in DOMAIN log : log[i].msg \in SummaryMsgs}

WarningCount == Cardinality({i \in DOMAIN log : log[i].level = "WARNING"})

SetupErrors == LogIdx("Oshibka nastroyki klienta Open-Meteo")

\* C12: in every run of main no summary line and no warning is logged before
\* get_weather_data has returned; once main has returned, summary lines are
\* in the log exactly when get_weather_data returned a record, and they all
\* stand after its success message; when it returned None no summary line is
\* logged and exactly one WARNING is; and main returns without having issued
\* a weather request exactly when client setup raised, with that failure
\* logged at ERROR and nothing of the request, the summary or the warning.
C12_MainReportsOutcome ==
    /\ pc \in {"client", "fetched"} => SummaryIdx = {} /\ WarningCount = 0
    /\ pc = "client" => apiCalls = 0
    /\ MainReturned =>
          /\ (SetupErrors # {}) <=> (apiCalls = 0)
          /\ IF apiCalls = 0
             THEN /\ \A i \in SetupErrors : log[i].level = "ERROR"
                  /\ request = NoArgs
                  /\ LogIdx(RequestMsg) = {}
                  /\ SummaryIdx = {}
                  /\ WarningCount = 0
                  /\ weather_data.kind = "None"
             ELSE /\ apiCalls = 1
                  /\ Cardinality(LogIdx(RequestMsg)) = 1
                  /\ (SummaryIdx # {}) <=> (weather_data.kind # "None")
                  /\ weather_data.kind # "None" =>
                        /\ LogIdx(SuccessMsg) # {}
                        /\ \A i \in SummaryIdx : \A j \in LogIdx(SuccessMsg) : j < i
                        /\ Len(renders) = 1
                        /\ Cardinality(SummaryIdx) = Len(renders[1])
                  /\ weather_data.kind = "None" =>
                        /\ WarningCount = 1
                        /\ LogIdx(SuccessMsg) = {}
                        \* the warning is the last line main logs
                        /\ log[Len(log) - (IF pc = "exit" THEN 1 ELSE 0)].level = "WARNING"

\* weather_data.py has run to its end with a record: the success message,
\* then the nine summary lines
C12_Witness ==
    /\ pc = "exit"
    /\ script = "weather_data"
    /\ weather_data.kind = "dict"
    /\ Cardinality(SummaryIdx) = 9
    /\ \E j \in LogIdx(SuccessMsg) : \A i \in SummaryIdx : j < i
    /\ WarningCount = 0

====
